---- MODULE Spec2Model ----
(***************************************************************************)
(* A model of ardoqpy.ArdoqClient (src/ardoqpy/ardoqpy.py): a synchronous  *)
(* REST client.  Each public method is one action; the HTTP responses the  *)
(* transport hands back are the action's inputs.  The state is the client  *)
(* object (org, baseurl, token and the three cache fields) together with   *)
(* a record of the last call: its arguments, the requests it issued, the   *)
(* responses it consumed and how it ended.                                 *)
(***************************************************************************)
EXTENDS Integers, Sequences, FiniteSets, TLC

\* ------------------------------------------------------------------ bounds

\* How many distinct workspace identifiers callers pass (taken from IdPool).
NumIds == 2

IdPool == <<"a", "b", "c", "d">>

Ids == {IdPool[i] : i \in 1..NumIds}

\* Organizations a client is constructed with.
Orgs == {"acme"}

\* ------------------------------------------------------- Python values

\* An optional argument: None is the empty tuple, a given value x is <<x>>.
None == <<>>

Some(x) == <<x>>

OptIds == {None} \cup {Some(i) : i \in Ids}

\* Component and reference identifiers callers pass.
OptCompIds == {None, Some("c1")}

OptRefIds == {None, Some("r1")}

\* A JSON object is a set of <<key, value>> pairs, a JSON array a sequence of
\* objects.  Every value a cache field or a result can hold is tagged.
JObj(o) == [kind |-> "obj", v |-> <<o>>]

JList(s) == [kind |-> "list", v |-> s]

PyNone == [kind |-> "none", v |-> <<>>]

\* The literal {} of _unwrap_response.
EmptyMap == JObj({})

HasKey(o, k) == \E p \in o : p[1] = k

GetKey(o, k) == (CHOOSE p \in o : p[1] = k)[2]

\* Documents callers pass to the create and update operations.
Docs == {JObj({<<"name", "n1">>})}

OptDocs == {None} \cup {Some(d) : d \in Docs}

\* ------------------------------------------------------------ responses

WsA == {<<"_id", "a">>, <<"componentModel", "m1">>}

PlainA == {<<"_id", "a">>}

\* Body texts the service may send.
TxtDoc == "{\"_id\": \"a\"}"

TxtWs == "{\"_id\": \"a\", \"componentModel\": \"m1\"}"

TxtDup == "[{\"_id\": \"a\"}, {\"_id\": \"a\", \"componentModel\": \"m1\"}]"

TxtHtml == "<html>gateway</html>"

Texts == {TxtDoc, TxtWs, TxtDup, TxtHtml}

\* resp.json(): the parsed body; only some texts are JSON.
IsJson(text) == text \in {TxtDoc, TxtWs, TxtDup}

json(text) ==
  CASE text = TxtDoc -> JObj(PlainA)
    [] text = TxtWs -> JObj(WsA)
    [] text = TxtDup -> JList(<<PlainA, WsA>>)

Response(code, reason, text) == [status_code |-> code, reason |-> reason, text |-> text]

\* What the service may answer a request with.
Responses ==
  {Response(200, "OK", TxtWs),
   Response(200, "OK", TxtDup),
   Response(200, "OK", TxtHtml),
   Response(201, "Created", TxtDoc),
   Response(202, "Accepted", TxtDoc),
   Response(204, "No Content", TxtDoc),
   Response(404, "Not Found", TxtHtml)}

\* ------------------------------------------------------------- outcomes

\* How a call (or a helper) ends: a returned value or a raised exception.
Returned(v) ==
  [kind |-> "return", exc |-> "", val |-> v, msg |-> "",
   code |-> 0, reason |-> "", text |-> ""]

\* raise exc(msg): the client-side errors, and Python's own errors.
RaisedMsg(exc, msg) ==
  [kind |-> "raise", exc |-> exc, val |-> PyNone, msg |-> msg,
   code |-> 0, reason |-> "", text |-> ""]

\* raise exc({'code': code, 'reason': reason, 'text': text})
RaisedHttp(exc, code, reason, text) ==
  [kind |-> "raise", exc |-> exc, val |-> PyNone, msg |-> "",
   code |-> code, reason |-> reason, text |-> text]

NoOutcome ==
  [kind |-> "none", exc |-> "", val |-> PyNone, msg |-> "",
   code |-> 0, reason |-> "", text |-> ""]

NoCall == [op |-> "", ws_id |-> None, comp_id |-> None, ref_id |-> None, doc |-> None]

\* ---------------------------------------------------------------- state

VARIABLES
  org,         \* self.org
  baseurl,     \* self.baseurl
  token,       \* self.token
  workspaces,  \* self.workspaces
  workspace,   \* self.workspace
  model,       \* self.model
  call,        \* the last call: operation and arguments
  sent,        \* the requests the last call issued, in order
  got,         \* the responses the last call consumed, in order
  outcome      \* how the last call ended

vars == <<org, baseurl, token, workspaces, workspace, model, call, sent, got, outcome>>

\* ArdoqClient.__init__
Init ==
  /\ org \in Orgs
  /\ baseurl = "https://app.ardoq.com/" \o "/api/"
  /\ token = "t0k3n"
  /\ workspaces = PyNone
  /\ workspace = PyNone
  /\ model = PyNone
  /\ call = NoCall
  /\ sent = <<>>
  /\ got = <<>>
  /\ outcome = NoOutcome

\* ------------------------------------------------------ request helpers

\* _unwrap_response raising the exception type that matches the status.
unwrap_typed(resp) ==
  IF resp.status_code = 200 \/ resp.status_code = 201
    THEN IF IsJson(resp.text)
           THEN Returned(json(resp.text))
           ELSE RaisedMsg("ValueError", "No JSON object could be decoded")
    ELSE IF resp.status_code = 204
           THEN Returned(EmptyMap)
           ELSE RaisedHttp(IF resp.status_code = 404
                             THEN "NotFoundError"
                             ELSE "ArdoqClientException",
                           resp.status_code, resp.reason, resp.text)

\* _unwrap_response treating 201 like 204.
unwrap_created_empty(resp) ==
  IF resp.status_code = 200
    THEN IF IsJson(resp.text)
           THEN Returned(json(resp.text))
           ELSE RaisedMsg("ValueError", "No JSON object could be decoded")
    ELSE IF resp.status_code = 201 \/ resp.status_code = 204
           THEN Returned(EmptyMap)
           ELSE RaisedHttp("ArdoqClientException", resp.status_code, resp.reason, resp.text)

\* _unwrap_response parsing the body of a 204 like that of a 200.
unwrap_no_content_body(resp) ==
  IF resp.status_code = 200 \/ resp.status_code = 201 \/ resp.status_code = 204
    THEN IF IsJson(resp.text)
           THEN Returned(json(resp.text))
           ELSE RaisedMsg("ValueError", "No JSON object could be decoded")
    ELSE RaisedHttp("ArdoqClientException", resp.status_code, resp.reason, resp.text)

_unwrap_response(resp) ==
  IF resp.status_code = 200 \/ resp.status_code = 201
    THEN IF IsJson(resp.text)
           THEN Returned(json(resp.text))
           ELSE RaisedMsg("ValueError", "No JSON object could be decoded")
    ELSE IF resp.status_code = 204
           THEN Returned(EmptyMap)
           ELSE RaisedHttp("ArdoqClientException", resp.status_code, resp.reason, resp.text)

\* The caller's parameters sent as they are, org forgotten.
update_org_forgotten(kwargs) == kwargs

\* kwargs.update({'org': self.org}) on a dict held as a set of pairs.
update_org(kwargs) == {p \in kwargs : p[1] # "org"} \cup {<<"org", org>>}

\* session.headers after __init__.
session_headers == {<<"Authorization", "Token token=" \o token>>}

Request(method, resrc, payload, kwargs) ==
  [method |-> method, url |-> baseurl \o resrc, params |-> update_org(kwargs),
   json |-> payload, headers |-> session_headers]

_get(resrc, kwargs) == Request("GET", resrc, PyNone, kwargs)

_post(resrc, payload, kwargs) == Request("POST", resrc, payload, kwargs)

_put(resrc, payload, kwargs) == Request("PUT", resrc, payload, kwargs)

_delete(resrc, kwargs) == Request("DELETE", resrc, PyNone, kwargs)

\* ------------------------------------------------------------- effects

\* What a call does: requests issued, responses consumed, outcome, caches after.
Effect(s, g, out, wss, ws, m) ==
  [sent |-> s, got |-> g, out |-> out, workspaces |-> wss, workspace |-> ws, model |-> m]

\* A call that leaves the caches alone.
Plain(s, g, out) == Effect(s, g, out, workspaces, workspace, model)

\* A round trip that sends the request again when the answer is an error.
RoundTripRetry(req, resp) ==
  IF resp.status_code \in {200, 201, 204}
    THEN Plain(<<req>>, <<resp>>, _unwrap_response(resp))
    ELSE Plain(<<req, req>>, <<resp, resp>>, _unwrap_response(resp))

\* One request whose unwrapped response is the result (res = self._xxx(...); return res).
RoundTrip(req, resp) == Plain(<<req>>, <<resp>>, _unwrap_response(resp))

Invalid(msg) == Plain(<<>>, <<>>, RaisedMsg("ArdoqClientException", msg))

\* --------------------------------------------------------- Python access

\* v[key] raises instead of yielding a value: KeyError on a mapping without
\* the key, TypeError on a list or on None.
SubscriptFails(val, key) == ~(val.kind = "obj" /\ HasKey(val.v[1], key))

SubscriptError(val, key) ==
  IF val.kind = "obj"
    THEN RaisedMsg("KeyError", key)
    ELSE RaisedMsg("TypeError", "indices must be integers")

Subscript(val, key) == GetKey(val.v[1], key)

\* The for loop of get_workspace over a list, from entry i on: every entry
\* whose _id equals ws_id sets ws_index and self.workspace (the last one wins).
RECURSIVE scan(_, _, _, _, _)
scan(s, i, ws_id, ws_index, ws) ==
  IF i > Len(s)
    THEN [err |-> FALSE, ws_index |-> ws_index, workspace |-> ws]
    ELSE IF SubscriptFails(JObj(s[i]), "_id")
           THEN [err |-> TRUE, ws_index |-> ws_index, workspace |-> ws]
           ELSE IF Subscript(JObj(s[i]), "_id") = ws_id
                  THEN scan(s, i + 1, ws_id, Some(i), JObj(s[i]))
                  ELSE scan(s, i + 1, ws_id, ws_index, ws)

\* ------------------------------------------------------------ operations

\* get_workspaces clearing the cached list before it fetches.
get_workspaces_reset(resp) ==
  LET u == _unwrap_response(resp)
  IN  Effect(<<_get("workspace", {})>>, <<resp>>, u,
             IF u.kind = "return" THEN u.val ELSE PyNone, workspace, model)

get_workspaces(resp) ==
  LET u == _unwrap_response(resp)
  IN  Effect(<<_get("workspace", {})>>, <<resp>>, u,
             IF u.kind = "return" THEN u.val ELSE workspaces, workspace, model)

\* get_workspace fetching every time, the cached list ignored.
get_workspace_nocache(ws_id, resp) ==
  IF ws_id = None
    THEN Invalid("need an id for get_workspace")
    ELSE
      LET u == _unwrap_response(resp)
      IN  Effect(<<_get("workspace" \o "/" \o ws_id[1], {})>>, <<resp>>, u,
                 workspaces, IF u.kind = "return" THEN u.val ELSE workspace, model)

get_workspace(ws_id, resp) ==
  IF ws_id = None
    THEN Invalid("need an id for get_workspace")
    ELSE IF workspaces.kind = "obj" /\ workspaces.v[1] # {}
      \* enumerate() of a mapping yields its keys, and a str has no ['_id']
      THEN Plain(<<>>, <<>>, RaisedMsg("TypeError", "string indices must be integers"))
      ELSE
        LET lst == IF workspaces.kind = "list" THEN workspaces.v ELSE <<>>
            r == scan(lst, 1, ws_id[1], None, workspace)
            u == _unwrap_response(resp)
        IN  IF r.err
              THEN Effect(<<>>, <<>>, RaisedMsg("KeyError", "_id"),
                          workspaces, r.workspace, model)
              ELSE IF r.ws_index = None \/ workspaces = PyNone
                THEN Effect(<<_get("workspace" \o "/" \o ws_id[1], {})>>, <<resp>>, u,
                            workspaces,
                            IF u.kind = "return" THEN u.val ELSE r.workspace, model)
                ELSE Effect(<<>>, <<>>, Returned(r.workspace),
                            workspaces, r.workspace, model)

create_workspace(ws, resp) ==
  IF ws = None
    THEN Invalid("must provide a workspace")
    ELSE RoundTrip(_post("workspace", ws[1], {}), resp)

del_workspace(ws_id, resp) ==
  IF ws_id = None
    THEN Invalid("must provide a workspace id")
    ELSE RoundTrip(_delete("workspace/" \o ws_id[1], {}), resp)

\* get_model with the guard of line 147 in force: the workspace is fetched
\* only when the last single workspace is not the one asked for.
get_model_cached(ws_id, resp1, resp2) ==
  IF ws_id = None
    THEN Invalid("must provide a workspaceID")
    ELSE IF /\ ~SubscriptFails(workspace, "_id")
            /\ Subscript(workspace, "_id") = ws_id[1]
            /\ ~SubscriptFails(workspace, "componentModel")
      THEN
        LET req == _get("model" \o "/" \o Subscript(workspace, "componentModel"), {})
            u == _unwrap_response(resp1)
        IN  Effect(<<req>>, <<resp1>>, u, workspaces, workspace,
                   IF u.kind = "return" THEN u.val ELSE model)
      ELSE
        LET req1 == _get("workspace" \o "/" \o ws_id[1], {})
            u1 == _unwrap_response(resp1)
        IN  IF u1.kind = "raise"
              THEN Plain(<<req1>>, <<resp1>>, u1)
              ELSE IF SubscriptFails(u1.val, "componentModel")
                THEN Effect(<<req1>>, <<resp1>>, SubscriptError(u1.val, "componentModel"),
                            workspaces, u1.val, model)
                ELSE
                  LET req2 == _get("model" \o "/" \o Subscript(u1.val, "componentModel"), {})
                      u2 == _unwrap_response(resp2)
                  IN  Effect(<<req1, req2>>, <<resp1, resp2>>, u2, workspaces, u1.val,
                             IF u2.kind = "return" THEN u2.val ELSE model)

get_model(ws_id, resp1, resp2) ==
  IF ws_id = None
    THEN Invalid("must provide a workspaceID")
    ELSE
      LET req1 == _get("workspace" \o "/" \o ws_id[1], {})
          u1 == _unwrap_response(resp1)
      IN  IF u1.kind = "raise"
            THEN Plain(<<req1>>, <<resp1>>, u1)
            ELSE IF SubscriptFails(u1.val, "componentModel")
              THEN Effect(<<req1>>, <<resp1>>, SubscriptError(u1.val, "componentModel"),
                          workspaces, u1.val, model)
              ELSE
                LET req2 == _get("model" \o "/" \o Subscript(u1.val, "componentModel"), {})
                    u2 == _unwrap_response(resp2)
                IN  Effect(<<req1, req2>>, <<resp1, resp2>>, u2, workspaces, u1.val,
                           IF u2.kind = "return" THEN u2.val ELSE model)

create_component(comp, resp) ==
  IF comp = None
    THEN Invalid("must provide a component")
    ELSE RoundTrip(_post("component", comp[1], {}), resp)

\* get_component with the nested path of line 171.
get_component_nested(ws_id, comp_id, resp) ==
  IF ws_id = None
    THEN Invalid("must provide a workspace id")
    ELSE IF comp_id # None
      THEN RoundTrip(_get("workspace/" \o ws_id[1] \o "/component/" \o comp_id[1], {}), resp)
      ELSE RoundTrip(_get("workspace/" \o ws_id[1] \o "/component", {}), resp)

get_component(ws_id, comp_id, resp) ==
  IF ws_id = None
    THEN Invalid("must provide a workspace id")
    ELSE IF comp_id # None
      THEN RoundTrip(_get("component/" \o comp_id[1], {}), resp)
      ELSE RoundTrip(_get("workspace/" \o ws_id[1] \o "/component", {}), resp)

\* update_component rejecting a call only when all three arguments are absent.
update_component_all_absent(ws_id, comp_id, comp, resp) ==
  IF ws_id = None /\ comp_id = None /\ comp = None
    THEN Invalid("must provide a workspace id, component id, and component")
    ELSE IF comp_id = None
      THEN Plain(<<>>, <<>>, RaisedMsg("TypeError", "cannot concatenate 'str' and 'NoneType'"))
      ELSE RoundTrip(_put("component/" \o comp_id[1],
                          IF comp = None THEN PyNone ELSE comp[1], {}), resp)

update_component(ws_id, comp_id, comp, resp) ==
  IF ws_id = None \/ comp_id = None \/ comp = None
    THEN Invalid("must provide a workspace id, component id, and component")
    ELSE RoundTrip(_put("component/" \o comp_id[1], comp[1], {}), resp)

del_component(comp_id, resp) ==
  IF comp_id = None
    THEN Invalid("must provide a component id")
    ELSE RoundTrip(_delete("component/" \o comp_id[1], {}), resp)

create_reference(ref, resp) ==
  IF ref = None
    THEN Invalid("must provide a reference")
    ELSE RoundTrip(_post("reference", ref[1], {}), resp)

get_reference(ws_id, ref_id, resp) ==
  IF ws_id = None
    THEN Invalid("must provide a workspace id")
    ELSE
      LET rid == IF ref_id = None THEN "" ELSE ref_id[1]
      IN  RoundTrip(_get("reference/" \o rid, {<<"workspace", ws_id[1]>>}), resp)

del_reference(ref_id, resp) ==
  IF ref_id = None
    THEN Invalid("must provide a reference id")
    ELSE RoundTrip(_delete("reference/" \o ref_id[1], {}), resp)

\* --------------------------------------------------------------- actions

Args(op, ws_id, comp_id, ref_id, doc) ==
  [op |-> op, ws_id |-> ws_id, comp_id |-> comp_id, ref_id |-> ref_id, doc |-> doc]

\* The client after a call with effect e.
Apply(c, e) ==
  /\ call' = c
  /\ sent' = e.sent
  /\ got' = e.got
  /\ outcome' = e.out
  /\ workspaces' = e.workspaces
  /\ workspace' = e.workspace
  /\ model' = e.model
  /\ UNCHANGED <<org, baseurl, token>>

\* The transport answers the requests a call issues and no others: a call
\* that issues none (or no second one) draws no response.
AnyResponse == CHOOSE r \in Responses : TRUE

Answers(e) == IF Len(e.sent) >= 1 THEN Responses ELSE {AnyResponse}

SecondAnswers(e) == IF Len(e.sent) >= 2 THEN Responses ELSE {AnyResponse}

CallGetWorkspaces ==
  \E resp \in Responses :
    Apply(Args("get_workspaces", None, None, None, None), get_workspaces(resp))

CallGetWorkspace ==
  \E ws_id \in OptIds :
    \E resp \in Answers(get_workspace(ws_id, AnyResponse)) :
      Apply(Args("get_workspace", ws_id, None, None, None), get_workspace(ws_id, resp))

CallCreateWorkspace ==
  \E ws \in OptDocs :
    \E resp \in Answers(create_workspace(ws, AnyResponse)) :
      Apply(Args("create_workspace", None, None, None, ws), create_workspace(ws, resp))

CallDelWorkspace ==
  \E ws_id \in OptIds :
    \E resp \in Answers(del_workspace(ws_id, AnyResponse)) :
      Apply(Args("del_workspace", ws_id, None, None, None), del_workspace(ws_id, resp))

CallGetModel ==
  \E ws_id \in OptIds :
    \E resp1 \in Answers(get_model(ws_id, AnyResponse, AnyResponse)) :
      \E resp2 \in SecondAnswers(get_model(ws_id, resp1, AnyResponse)) :
        Apply(Args("get_model", ws_id, None, None, None), get_model(ws_id, resp1, resp2))

CallCreateComponent ==
  \E comp \in OptDocs :
    \E resp \in Answers(create_component(comp, AnyResponse)) :
      Apply(Args("create_component", None, None, None, comp), create_component(comp, resp))

CallGetComponent ==
  \E ws_id \in OptIds, comp_id \in OptCompIds :
    \E resp \in Answers(get_component(ws_id, comp_id, AnyResponse)) :
      Apply(Args("get_component", ws_id, comp_id, None, None),
            get_component(ws_id, comp_id, resp))

CallUpdateComponent ==
  \E ws_id \in OptIds, comp_id \in OptCompIds, comp \in OptDocs :
    \E resp \in Answers(update_component(ws_id, comp_id, comp, AnyResponse)) :
      Apply(Args("update_component", ws_id, comp_id, None, comp),
            update_component(ws_id, comp_id, comp, resp))

CallDelComponent ==
  \E comp_id \in OptCompIds :
    \E resp \in Answers(del_component(comp_id, AnyResponse)) :
      Apply(Args("del_component", None, comp_id, None, None), del_component(comp_id, resp))

CallCreateReference ==
  \E ref \in OptDocs :
    \E resp \in Answers(create_reference(ref, AnyResponse)) :
      Apply(Args("create_reference", None, None, None, ref), create_reference(ref, resp))

CallGetReference ==
  \E ws_id \in OptIds, ref_id \in OptRefIds :
    \E resp \in Answers(get_reference(ws_id, ref_id, AnyResponse)) :
      Apply(Args("get_reference", ws_id, None, ref_id, None),
            get_reference(ws_id, ref_id, resp))

CallDelReference ==
  \E ref_id \in OptRefIds :
    \E resp \in Answers(del_reference(ref_id, AnyResponse)) :
      Apply(Args("del_reference", None, None, ref_id, None), del_reference(ref_id, resp))

Next ==
  \/ CallGetWorkspaces
  \/ CallGetWorkspace
  \/ CallCreateWorkspace
  \/ CallDelWorkspace
  \/ CallGetModel
  \/ CallCreateComponent
  \/ CallGetComponent
  \/ CallUpdateComponent
  \/ CallDelComponent
  \/ CallCreateReference
  \/ CallGetReference
  \/ CallDelReference

Spec == Init /\ [][Next]_vars

\* ------------------------------------------------- vocabulary of the claims

\* The statuses _unwrap_response treats as success.
SuccessCodes == {200, 201, 204}

\* The last call was made with one of its required arguments absent.
MissingRequired ==
  CASE call.op = "get_workspace" -> call.ws_id = None
    [] call.op = "create_workspace" -> call.doc = None
    [] call.op = "del_workspace" -> call.ws_id = None
    [] call.op = "get_model" -> call.ws_id = None
    [] call.op = "create_component" -> call.doc = None
    [] call.op = "get_component" -> call.ws_id = None
    [] call.op = "update_component" ->
         call.ws_id = None \/ call.comp_id = None \/ call.doc = None
    [] call.op = "del_component" -> call.comp_id = None
    [] call.op = "create_reference" -> call.doc = None
    [] call.op = "get_reference" -> call.ws_id = None
    [] call.op = "del_reference" -> call.ref_id = None
    [] OTHER -> FALSE

\* A call was made and passed argument validation.
Validated == call.op # "" /\ ~MissingRequired

\* Response r is a 200 or 201 with a JSON body.
JsonSuccess(r) == r.status_code \in {200, 201} /\ IsJson(r.text)

\* ---------------------------------------------------------------- C1

\* C1: a call of any operation with a required argument absent raises the
\* client-side ArdoqClientException (with its message) and issues no request;
\* for update_component any one of the three absent arguments suffices.
C1_MissingArgumentRaises ==
  MissingRequired =>
    /\ outcome.kind = "raise"
    /\ outcome.exc = "ArdoqClientException"
    /\ outcome.msg # ""
    /\ sent = <<>>
    /\ got = <<>>

\* update_component called without a component id only.
C1_Witness ==
  /\ call.op = "update_component"
  /\ call.ws_id # None /\ call.comp_id = None /\ call.doc # None
  /\ outcome.kind = "raise"
  /\ sent = <<>>

\* ---------------------------------------------------------------- C2

C3_AnySuccessIsReturned ==
  \A i \in 1..Len(got) :
    JsonSuccess(got[i]) => outcome = Returned(json(got[i].text))

\* C3 amended: when the last request a call issues is answered 200 or 201 with
\* a JSON body, the call returns exactly that parsed body; for get_model this
\* is its second (model) request, while the answer to its first (workspace)
\* request is stored as the last single workspace instead of being returned.
C3_LastSuccessIsReturned ==
  /\ ( /\ Len(got) >= 1
       /\ JsonSuccess(got[Len(got)])
       /\ call.op = "get_model" => Len(got) = 2 )
     => outcome = Returned(json(got[Len(got)].text))
  /\ ( /\ call.op = "get_model"
       /\ Len(got) >= 1
       /\ JsonSuccess(got[1]) )
     => workspace = json(got[1].text)

\* get_model returns the model response, which differs from the workspace one.
C3_Witness ==
  /\ call.op = "get_model"
  /\ Len(got) = 2
  /\ got[1] = Response(200, "OK", TxtWs)
  /\ got[2] = Response(201, "Created", TxtDoc)
  /\ outcome = Returned(JObj(PlainA))
  /\ workspace = JObj(WsA)

\* ---------------------------------------------------------------- C4

\* C4 as stated: whenever a request of a call is answered 204, the call
\* returns the empty mapping.
C4_Any204ReturnsEmpty ==
  \A i \in 1..Len(got) :
    got[i].status_code = 204 => outcome = Returned(EmptyMap)

\* C4 amended: when the last request a call issues is answered 204 the call
\* returns the empty mapping whatever the body, for get_model when that is
\* its second (model) request; a 204 to get_model's first (workspace) request
\* makes it raise KeyError after that single request, the empty mapping
\* stored as the last single workspace.
C4_Last204ReturnsEmpty ==
  /\ ( /\ Len(got) >= 1
       /\ got[Len(got)].status_code = 204
       /\ call.op = "get_model" => Len(got) = 2 )
     => outcome = Returned(EmptyMap)
  /\ ( /\ call.op = "get_model"
       /\ Len(got) >= 1
       /\ got[1].status_code = 204 )
     => /\ outcome = RaisedMsg("KeyError", "componentModel")
        /\ Len(sent) = 1
        /\ workspace = EmptyMap

\* A 204 with a JSON body in it still yields the empty mapping.
C4_Witness ==
  /\ call.op = "get_workspaces"
  /\ got = <<Response(204, "No Content", TxtDoc)>>
  /\ outcome = Returned(EmptyMap)
  /\ workspaces = EmptyMap

\* ---------------------------------------------------------------- C5

\* The cache field holds what a workspace listing yields: nothing yet, a
\* list of workspace documents, or the empty mapping of a 204.
ListCache == workspaces = PyNone \/ workspaces.kind = "list" \/ workspaces = EmptyMap

\* Entry i of the cached list is the workspace with this id.
CachedAt(i, id) == <<"_id", id>> \in workspaces.v[i]

CacheHit(id) ==
  workspaces.kind = "list" /\ \E i \in 1..Len(workspaces.v) : CachedAt(i, id)

\* The call of this step found its id in the cached list: no request, the
\* entry returned and kept as the last single workspace.
C5_Hit ==
  /\ sent' = <<>>
  /\ outcome'.kind = "return"
  /\ \E i \in 1..Len(workspaces.v) :
       /\ CachedAt(i, call'.ws_id[1])
       /\ outcome'.val = JObj(workspaces.v[i])
  /\ workspace' = outcome'.val

\* The call of this step did not: one GET of workspace/{id}, whose unwrapped
\* response is returned and kept as the last single workspace.
C5_Miss ==
  /\ Len(sent') = 1
  /\ Len(got') = 1
  /\ sent'[1].method = "GET"
  /\ sent'[1].url = baseurl \o "workspace/" \o call'.ws_id[1]
  /\ JsonSuccess(got'[1]) =>
       /\ outcome' = Returned(json(got'[1].text))
       /\ workspace' = json(got'[1].text)
  /\ got'[1].status_code = 204 =>
       /\ outcome' = Returned(EmptyMap)
       /\ workspace' = EmptyMap
  /\ got'[1].status_code \notin SuccessCodes =>
       /\ outcome'.kind = "raise"
       /\ workspace' = workspace

\* The step is a get_workspace call that passed validation.
GetWorkspaceStep == call'.op = "get_workspace" /\ call'.ws_id # None

\* C5 as stated: after any sequence of operations get_workspace(id) returns
\* an entry of the cached listing whose _id equals id, issuing no request,
\* when there is one, and otherwise issues exactly one GET of workspace/{id}
\* and returns and caches that response.
C5_HitOrFetch ==
  [][GetWorkspaceStep =>
       /\ workspaces' = workspaces
       /\ IF CacheHit(call'.ws_id[1]) THEN C5_Hit ELSE C5_Miss]_vars

\* The cached listing is a non-empty mapping: the call raises TypeError
\* before any request and assigns nothing.
C5_NotAList ==
  /\ sent' = <<>>
  /\ outcome'.kind = "raise"
  /\ outcome'.exc = "TypeError"
  /\ workspace' = workspace

C5_Step ==
  GetWorkspaceStep =>
    /\ workspaces' = workspaces
    /\ model' = model
    /\ IF ~ListCache
         THEN C5_NotAList
         ELSE IF CacheHit(call'.ws_id[1]) THEN C5_Hit ELSE C5_Miss

\* C5 amended: while the cached listing is a list of workspace documents (or
\* nothing, or the empty mapping of a 204), get_workspace(id) returns an entry
\* of it whose _id equals id, issuing no request, when there is one, and
\* otherwise issues exactly one GET of workspace/{id} and returns and caches
\* that response; when the listing was answered with a non-empty JSON object,
\* get_workspace raises TypeError and issues no request.
C5_CacheThenFetch == [][C5_Step]_vars

\* A cache hit: the listed workspace is returned and nothing was requested.
C5_Witness ==
  /\ call.op = "get_workspace"
  /\ call.ws_id = Some("a")
  /\ workspaces = JList(<<PlainA, WsA>>)
  /\ sent = <<>>
  /\ outcome = Returned(JObj(WsA))
  /\ workspace = JObj(WsA)

\* ---------------------------------------------------------------- C6

\* The first request of get_model raised: an error status, or a body that
\* is not JSON.
FirstFailed == _unwrap_response(got[1]).kind = "raise"

\* The workspace the first request returned carries componentModel.
FirstHasModel ==
  /\ ~FirstFailed
  /\ _unwrap_response(got[1]).val.kind = "obj"
  /\ \E p \in _unwrap_response(got[1]).val.v[1] : p[1] = "componentModel"

IsModelRequest(req) ==
  /\ req.method = "GET"
  /\ \E p \in _unwrap_response(got[1]).val.v[1] :
       /\ p[1] = "componentModel"
       /\ req.url = baseurl \o "model/" \o p[2]

GetModelCall == call.op = "get_model" /\ call.ws_id # None

FirstIsWorkspaceRequest ==
  /\ Len(sent) >= 1
  /\ Len(got) = Len(sent)
  /\ sent[1].method = "GET"
  /\ sent[1].url = baseurl \o "workspace/" \o call.ws_id[1]

\* C6 as stated: get_model issues the workspace request and then the model
\* request, exactly two, except that the second is not issued when the first
\* fails.
C6_TwoUnlessFirstFails ==
  GetModelCall =>
    /\ FirstIsWorkspaceRequest
    /\ IF FirstFailed
         THEN Len(sent) = 1
         ELSE Len(sent) = 2 /\ FirstHasModel /\ IsModelRequest(sent[2])

\* C6 amended: get_model always issues a GET of workspace/{ws_id} first,
\* whatever is cached; when that returns a workspace carrying componentModel
\* it issues exactly one more request, a GET of model/{componentModel}; when
\* the first request fails or returns a value without componentModel (the
\* empty mapping of a 204 included) it issues no second request and raises.
C6_TwoWhenWorkspaceHasModel ==
  GetModelCall =>
    /\ FirstIsWorkspaceRequest
    /\ IF FirstHasModel
         THEN Len(sent) = 2 /\ IsModelRequest(sent[2])
         ELSE Len(sent) = 1 /\ outcome.kind = "raise"

\* Both requests issued although the workspace is already cached.
C6_Witness ==
  /\ GetModelCall
  /\ call.ws_id = Some("a")
  /\ workspaces = JList(<<PlainA, WsA>>)
  /\ Len(sent) = 2
  /\ sent[1].url = baseurl \o "workspace/a"
  /\ sent[2].url = baseurl \o "model/m1"
  /\ outcome.kind = "return"

\* ---------------------------------------------------------------- C7

\* Request req carries exactly one org parameter, the client's organization.
CarriesOrg(req, o) == \A p \in req.params : p[1] = "org" <=> p = <<"org", o>>

HasOrg(req, o) == <<"org", o>> \in req.params /\ CarriesOrg(req, o)

C7_Step ==
  /\ org' = org
  /\ \A i \in 1..Len(sent') : HasOrg(sent'[i], org)
  /\ (call'.op = "get_reference" /\ call'.ws_id # None) =>
       sent'[1].params = {<<"workspace", call'.ws_id[1]>>, <<"org", org>>}

\* C7: every request of every call carries org = the organization the client
\* was constructed with, next to the caller's own query parameters, and that
\* organization never changes.
C7_EveryRequestCarriesOrg == [][C7_Step]_vars

C7_Witness ==
  /\ call.op = "get_reference"
  /\ call.ws_id = Some("b")
  /\ Len(sent) = 1
  /\ sent[1].params = {<<"workspace", "b">>, <<"org", "acme">>}
  /\ org = "acme"

\* ---------------------------------------------------------------- C8

\* The last call ended with a result or with the client's own exception.
EndedAsDesigned ==
  outcome.kind = "return" \/ outcome.exc = "ArdoqClientException"

\* C8 as stated, of the calls that end with a result or a client exception:
\* a call that passes validation issues one request.
C8_OneRequestPerCall ==
  (Validated /\ EndedAsDesigned) => Len(sent) = 1 /\ Len(got) = 1

\* C8 amended: a call that passes validation has every request it issued
\* answered before it ends and repeats none; it issues exactly one request,
\* except get_model, which issues two (one when its workspace request fails
\* or yields no componentModel), and get_workspace, which issues none when
\* the id is found in the cached list or the cache holds a non-empty mapping.
C8_RequestsPerCall ==
  Validated =>
    /\ Len(got) = Len(sent)
    /\ \A i, j \in 1..Len(sent) : sent[i] = sent[j] => i = j
    /\ CASE call.op = "get_model" ->
              Len(sent) = IF FirstHasModel THEN 2 ELSE 1
         [] call.op = "get_workspace" ->
              Len(sent) = IF CacheHit(call.ws_id[1]) \/ ~ListCache THEN 0 ELSE 1
         [] OTHER -> Len(sent) = 1

\* A delete: one request, one response, then the result.
C8_Witness ==
  /\ call.op = "del_component"
  /\ Validated
  /\ Len(sent) = 1
  /\ sent[1].method = "DELETE"
  /\ got = <<Response(204, "No Content", TxtDoc)>>
  /\ outcome = Returned(EmptyMap)

\* ---------------------------------------------------------------- C9

\* Identifiers that occur in paths: the callers' and the service's.
PathIds == Ids \cup {"c1", "r1", "m1"}

\* The resource paths of the service; a reference id may be empty.
ResourcePaths ==
  {"workspace", "component", "reference"}
    \cup {"workspace/" \o i : i \in PathIds}
    \cup {"model/" \o i : i \in PathIds}
    \cup {"component/" \o i : i \in PathIds}
    \cup {"workspace/" \o i \o "/component" : i \in PathIds}
    \cup {"reference/" \o i : i \in PathIds \cup {""}}

RaisedClientError == outcome'.kind = "raise" /\ outcome'.exc = "ArdoqClientException"

CachesUnchanged == <<workspaces', workspace', model'>> = <<workspaces, workspace, model>>

\* C10 as stated: a call that raises leaves the three cache fields as they were.
C10_RaiseKeepsCaches == [][RaisedClientError => CachesUnchanged]_vars

\* get_model whose model request was answered with an error status.
ModelFetchFailed == call'.op = "get_model" /\ Len(sent') = 2

C10_Step ==
  RaisedClientError =>
    IF ModelFetchFailed
      THEN /\ workspaces' = workspaces
           /\ model' = model
           /\ workspace' = json(got'[1].text)
      ELSE CachesUnchanged

\* C10 amended: a call that raises a validation or service-response error
\* leaves the three cache fields as they were, except get_model when its
\* workspace fetch succeeds and its model fetch fails: the last single
\* workspace then holds the workspace just fetched (list and model unchanged).
C10_RaiseKeepsCachesButWorkspace == [][C10_Step]_vars

\* get_model failed on the model and left the fetched workspace behind.
C10_Witness ==
  /\ call.op = "get_model"
  /\ Len(sent) = 2
  /\ outcome.kind = "raise"
  /\ outcome.code = 404
  /\ workspace = JObj(WsA)
  /\ workspaces = PyNone
  /\ model = PyNone

====
